---- MODULE Spec2Model ----
(***************************************************************************)
(* Model of pyserver.py (M:OTION Python backend): the /ws/track           *)
(* connection loop, the process-wide FaceTracker with its single future   *)
(* slot and rolling FPS history, and the payload assembly.                *)
(*                                                                         *)
(* Numbers: scores and eye/mouth/brow fields are in thousandths (1.0 is   *)
(* 1000); angles are whole degrees; fps is an exact fraction <<num, den>>. *)
(* Wire bytes are their real values (0..255); image bytes stand for the   *)
(* classes of input the external codecs and engine distinguish.           *)
(***************************************************************************)
EXTENDS Integers, Sequences, FiniteSets, TLC

VARIABLES
  pc,          \* per connection: "receive" | "awaiting" | "closed"
  header,      \* per connection: the local `header` of the message being handled
  call,        \* per connection: id of the future its process call awaits (0: none)
  future,      \* FaceTracker._future: id of the future in the slot (0: None)
  futs,        \* the live future objects: id -> [state, val]
  latest,      \* FaceTracker._latest
  latest_ts,   \* FaceTracker._latest_ts
  fps_hist,    \* FaceTracker._fps_hist
  inflight,    \* requests handed to the engine whose callback has not fired
  nextId,      \* id of the next process call (one future, one engine request)
  ev,          \* history variable: the step just taken
  completions  \* history variable: every timestamp a process call recorded, in order

vars == <<pc, header, call, future, futs, latest, latest_ts, fps_hist,
          inflight, nextId, ev, completions>>

---------------------------------------------------------------------------
(* Bounds *)

\* process calls issued in one run of Spec
MaxFrames == 2
\* process calls issued in one run of SpecSolo
MaxSoloCalls == 40
\* the first calls of a SpecSolo run, which may time out
MaxSoloTimeouts == 2
\* length of the histories SpecPure starts from
MaxPureHist == 3
\* process calls issued in one run of SpecLive
MaxLiveCalls == 3
\* process calls issued in one run of SpecCross
MaxCrossCalls == 3

\* len(self._fps_hist) > 30
HIST_MAX == 30

Conns == {"a", "b"}

None == [tag |-> "None"]

Min(a, b) == IF a <= b THEN a ELSE b
Max(a, b) == IF a >= b THEN a ELSE b

---------------------------------------------------------------------------
(* Bytes *)

\* raw[a:b] of Python, 0-based, clamped to the buffer
Slice(s, a, b) == SubSeq(s, a + 1, Min(b, Len(s)))

RECURSIVE int_from_bytes_little(_)
\* int.from_bytes(bs, "little")
int_from_bytes_little(bs) ==
  IF bs = <<>> THEN 0 ELSE bs[1] + 256 * int_from_bytes_little(Tail(bs))

RECURSIVE DigitsValue(_, _)
\* value of a run of ASCII digits, most significant first
DigitsValue(bs, acc) ==
  IF bs = <<>> THEN acc ELSE DigitsValue(Tail(bs), 10 * acc + (bs[1] - 48))

IsDigits(bs) ==
  /\ Len(bs) >= 1
  /\ \A i \in 1..Len(bs) : bs[i] \in 48..57
  /\ (Len(bs) > 1 => bs[1] # 48)

\* the bytes of {"ts":
TsKey == <<123, 34, 116, 115, 34, 58>>

\* json.loads(bs.decode("utf-8")) on the texts the connections send here:
\* {} , {"ts":<digits>} , [] ; any other text of the input set is not JSON, and a
\* byte >= 128 that is not part of a multi-byte sequence is not UTF-8.
json_loads(bs) ==
  IF \E i \in 1..Len(bs) : bs[i] >= 128 THEN [tag |-> "UnicodeDecodeError"]
  ELSE IF bs = <<123, 125>> THEN [tag |-> "dict", has_ts |-> FALSE, ts |-> 0]
  ELSE IF bs = <<91, 93>> THEN [tag |-> "list"]
  ELSE IF /\ Len(bs) > Len(TsKey) + 1
          /\ SubSeq(bs, 1, Len(TsKey)) = TsKey
          /\ bs[Len(bs)] = 125
          /\ IsDigits(SubSeq(bs, Len(TsKey) + 1, Len(bs) - 1))
       THEN [tag |-> "dict", has_ts |-> TRUE,
             ts |-> DigitsValue(SubSeq(bs, Len(TsKey) + 1, Len(bs) - 1), 0)]
  ELSE [tag |-> "JSONDecodeError"]

\* lines 70-73: header_len, header, jpeg_bytes
Demux(raw) ==
  LET header_len == int_from_bytes_little(Slice(raw, 0, 4))
  IN [header |-> json_loads(Slice(raw, 4, 4 + header_len)),
      jpeg_bytes |-> Slice(raw, 4 + header_len, Len(raw))]

---------------------------------------------------------------------------
(* Image decode and the detection engine (external collaborators) *)

\* Image bytes: a JPEG start-of-image marker and one byte naming the picture.
ImgEmpty == <<>>
ImgBad == <<0>>
ImgNoFace == <<255, 216, 0>>
ImgFaceM == <<255, 216, 1>>
ImgFaceL == <<255, 216, 2>>
ImgFaceBadM == <<255, 216, 3>>

\* decode_jpeg without the None of line 153: whatever bytes there are become a raster
decode_jpeg_unchecked(jpeg_bytes) ==
  IF jpeg_bytes = <<>> THEN {None, [tag |-> "raise"]}
  ELSE {[tag |-> "raster", px |-> jpeg_bytes[Len(jpeg_bytes)]]}

\* decode_jpeg: the outcomes the codecs can give for these bytes. cv2.imdecode
\* returns None on bytes it cannot read and PIL then raises inside the try (None);
\* on an empty buffer cv2.imdecode either returns None or raises cv2.error, which
\* decode_jpeg does not catch.
decode_jpeg(jpeg_bytes) ==
  IF jpeg_bytes = <<>> THEN {None, [tag |-> "raise"]}
  ELSE IF Len(jpeg_bytes) >= 3 /\ jpeg_bytes[1] = 255 /\ jpeg_bytes[2] = 216
       THEN {[tag |-> "raster", px |-> jpeg_bytes[3]]}
  ELSE {None}

\* The FaceLandmarkerResult the engine computes for a raster: no face (0), a face
\* with a transformation matrix (1), a face without one (2), a face with a
\* malformed matrix (3), a face with scores out of range (4), a face without
\* blendshapes (5).
\* `frame` records which request the result was computed for.
FaceLandmarks ==
  [i \in {1, 33, 263} |->
     IF i = 33 THEN [x |-> 0, y |-> 0, z |-> 0]
     ELSE IF i = 263 THEN [x |-> 1, y |-> 1, z |-> 0]
     ELSE [x |-> 0, y |-> 0, z |-> -1]]

FaceBlendshapes ==
  << [category_name |-> "eyeBlinkLeft", score |-> 200],
     [category_name |-> "jawOpen", score |-> 600],
     [category_name |-> "mouthSmileLeft", score |-> 400],
     [category_name |-> "mouthSmileRight", score |-> 200],
     [category_name |-> "browInnerUp", score |-> 100],
     [category_name |-> "browOuterUpLeft", score |-> 300] >>

\* scores outside [0, 1], which min() and max() of lines 190-192 clamp
FaceBlendshapesOver ==
  << [category_name |-> "eyeBlinkLeft", score |-> 1200],
     [category_name |-> "eyeBlinkRight", score |-> 1000],
     [category_name |-> "jawOpen", score |-> 1500],
     [category_name |-> "browInnerUp", score |-> 100] >>

\* The floats of the transformation matrices. The values that occur are the
\* numbers (a + b * sqrt(2)) / d with d > 0, kept exactly as <<a, b, d>>;
\* rounding is not modelled.
Num(n) == <<n, 0, 1>>
HalfRoot2 == <<0, 1, 2>>
Neg(v) == <<-v[1], -v[2], v[3]>>
Add(v, w) == <<v[1] * w[3] + w[1] * v[3], v[2] * w[3] + w[2] * v[3], v[3] * w[3]>>
Sub(v, w) == Add(v, Neg(w))
Mul(v, w) == <<v[1] * w[1] + 2 * v[2] * w[2], v[1] * w[2] + v[2] * w[1], v[3] * w[3]>>

\* equality of two such numbers, whatever their denominators
Eq(v, w) == v[1] * w[3] = w[1] * v[3] /\ v[2] * w[3] = w[2] * v[3]

\* the same number with the common factors of two divided out
RECURSIVE Reduce(_)
Reduce(v) ==
  IF v[3] % 2 = 0 /\ v[1] % 2 = 0 /\ v[2] % 2 = 0
  THEN Reduce(<<v[1] \div 2, v[2] \div 2, v[3] \div 2>>)
  ELSE v

Abs(n) == IF n < 0 THEN -n ELSE n

\* the sign of a + b * sqrt(2): of the larger term when a and b pull opposite
\* ways, |a| against |b| * sqrt(2)
SignOf(a, b) ==
  LET sa == IF a > 0 THEN 1 ELSE IF a < 0 THEN -1 ELSE 0
      sb == IF b > 0 THEN 1 ELSE IF b < 0 THEN -1 ELSE 0
  IN IF sb = 0 THEN sa
     ELSE IF sa = 0 \/ sa = sb THEN sb
     ELSE IF Abs(a) <= Abs(b) THEN sb
     ELSE IF Abs(a) >= 2 * Abs(b) THEN sa
     ELSE IF a * a > 2 * b * b THEN sa ELSE sb

\* x \in {v} has the argument evaluated once
Sign(v) == CHOOSE s \in {SignOf(x[1], x[2]) : x \in {v}} : TRUE

\* row-major 4x4, a rotation of 90 degrees about z
FaceMatrix ==
  [i \in 1..16 |->
     Num(<<0, -1, 0, 0,   1, 0, 0, 0,   0, 0, 1, 0,   0, 0, 0, 1>>[i])]

Detect(raster, id) ==
  [tag |-> "result", frame |-> id,
   face_landmarks |-> IF raster.px = 0 THEN <<>> ELSE <<FaceLandmarks>>,
   face_blendshapes |-> IF raster.px \in {0, 5} THEN <<>>
                        ELSE IF raster.px = 4 THEN <<FaceBlendshapesOver>>
                        ELSE <<FaceBlendshapes>>,
   facial_transformation_matrixes |->
     IF raster.px = 1 THEN <<FaceMatrix>>
     ELSE IF raster.px = 3 THEN << <<Num(1), Num(0), Num(0)>> >>
     ELSE <<>>]

\* what detect_async can do with a request: accept it, or raise. MediaPipe turns
\* a failed status into ValueError (invalid argument, such as a timestamp that
\* does not increase) or RuntimeError (anything else).
EngineOutcomes == {"ok", "ValueError", "RuntimeError"}

---------------------------------------------------------------------------
(* Pose *)

\* math.degrees(math.atan2(y, x)) on the directions that are whole degrees
Atan2Deg(y, x) ==
  IF Sign(y) = 0 THEN (IF Sign(x) < 0 THEN 180 ELSE 0)
  ELSE IF Sign(x) = 0 THEN (IF Sign(y) > 0 THEN 90 ELSE -90)
  ELSE IF Eq(x, y) \/ Eq(x, Neg(y))
       THEN (IF Sign(x) > 0 THEN (IF Sign(y) > 0 THEN 45 ELSE -45)
                            ELSE (IF Sign(y) > 0 THEN 135 ELSE -135))
  ELSE CHOOSE d \in {} : TRUE

\* math.degrees(math.atan2(-y, x)): negating a zero gives -0.0, and
\* atan2(-0.0, x) is -pi for x < 0
Atan2DegNeg(y, x) ==
  IF Sign(y) = 0 THEN (IF Sign(x) < 0 THEN -180 ELSE 0) ELSE Atan2Deg(Neg(y), x)

\* math.sqrt on the squares of 0, 1/2, sqrt(2)/2, 1, sqrt(2) and 2
Sqrt(v) ==
  CHOOSE s \in {Num(0), <<1, 0, 2>>, HalfRoot2, Num(1), <<0, 1, 1>>, Num(2)} :
    \E x \in {v} : Eq(Mul(s, s), x)

\* the threshold of line 219
Eps == <<1, 0, 1000000>>

\* extract_pose_from_matrix taking the yaw from r20 without the negation
extract_pose_from_matrix_yaw_unnegated(matrix) ==
  IF Len(matrix) # 16 THEN [tag |-> "raise"]
  ELSE
    LET r(i, j) == matrix[4 * i + j + 1]
        decompose(sy) ==
          LET singular == Sign(Sub(sy, Eps)) < 0
          IN IF ~singular
             THEN [tag |-> "pose",
                   yaw |-> Atan2Deg(r(2, 0), sy),
                   pitch |-> Atan2Deg(r(2, 1), r(2, 2)),
                   roll |-> Atan2Deg(r(1, 0), r(0, 0))]
             ELSE [tag |-> "pose",
                   yaw |-> Atan2DegNeg(r(2, 0), sy),
                   pitch |-> Atan2DegNeg(r(1, 2), r(1, 1)),
                   roll |-> 0]
    IN \* sy \in {...} has the square root evaluated once
       CHOOSE pose \in {decompose(sy) :
                          sy \in {Sqrt(Add(Mul(r(0, 0), r(0, 0)), Mul(r(1, 0), r(1, 0))))}} : TRUE

\* lines 215-228; [tag |-> "raise"] when reshape((4, 4)) fails
extract_pose_from_matrix(matrix) ==
  IF Len(matrix) # 16 THEN [tag |-> "raise"]
  ELSE
    LET r(i, j) == matrix[4 * i + j + 1]
        decompose(sy) ==
          LET singular == Sign(Sub(sy, Eps)) < 0
          IN IF ~singular
             THEN [tag |-> "pose",
                   yaw |-> Atan2DegNeg(r(2, 0), sy),
                   pitch |-> Atan2Deg(r(2, 1), r(2, 2)),
                   roll |-> Atan2Deg(r(1, 0), r(0, 0))]
             ELSE [tag |-> "pose",
                   yaw |-> Atan2DegNeg(r(2, 0), sy),
                   pitch |-> Atan2DegNeg(r(1, 2), r(1, 1)),
                   roll |-> 0]
    IN \* sy \in {...} has the square root evaluated once
       CHOOSE pose \in {decompose(sy) :
                          sy \in {Sqrt(Add(Mul(r(0, 0), r(0, 0)), Mul(r(1, 0), r(1, 0))))}} : TRUE

\* lines 231-239
estimate_pose_from_landmarks(landmarks) ==
  LET left_eye == landmarks[33]
      right_eye == landmarks[263]
      nose == landmarks[1]
      eye_vec == [x |-> right_eye.x - left_eye.x,
                  y |-> right_eye.y - left_eye.y,
                  z |-> right_eye.z - left_eye.z]
  IN [tag |-> "pose",
      yaw |-> Atan2Deg(Num(eye_vec.z), Num(eye_vec.x)),
      pitch |-> Atan2Deg(Num(nose.z), Num(eye_vec.y)),
      roll |-> Atan2Deg(Num(eye_vec.y), Num(eye_vec.x))]

---------------------------------------------------------------------------
(* Payload assembly *)

RECURSIVE FirstScore(_, _)
FirstScore(entries, name) ==
  IF entries = <<>> THEN 0
  ELSE IF entries[1].category_name = name THEN entries[1].score
  ELSE FirstScore(Tail(entries), name)

\* lines 162-168
blendshape_lookup(blendshapes, name) ==
  IF blendshapes = <<>> THEN 0 ELSE FirstScore(blendshapes[1], name)

\* build_empty_payload with the eyes closed by default
build_empty_payload_closed_eyes(ts_ms, present) ==
  [ts |-> ts_ms,
   present |-> present,
   pose |-> [yawDeg |-> 0, pitchDeg |-> 0, rollDeg |-> 0],
   eye |-> [leftOpen |-> 0, rightOpen |-> 0],
   mouth |-> [open |-> 0, smile |-> 0],
   brow |-> [leftUp |-> 0, rightUp |-> 0],
   debug |-> [serverFps |-> <<0, 1>>, latencyMs |-> 0]]

\* lines 171-180
build_empty_payload(ts_ms, present) ==
  [ts |-> ts_ms,
   present |-> present,
   pose |-> [yawDeg |-> 0, pitchDeg |-> 0, rollDeg |-> 0],
   eye |-> [leftOpen |-> 1000, rightOpen |-> 1000],
   mouth |-> [open |-> 0, smile |-> 0],
   brow |-> [leftUp |-> 0, rightUp |-> 0],
   debug |-> [serverFps |-> <<0, 1>>, latencyMs |-> 0]]

\* int(header.get("ts", time.time() * 1000)), lines 75 and 184
header_ts(hdr, now) == IF hdr.has_ts THEN hdr.ts ELSE now

\* build_payload without the min() and max() of lines 190-192
build_payload_unclamped(result, hdr, fps_server, now) ==
  LET ts_ms == header_ts(hdr, now)
      payload == [build_empty_payload(ts_ms, FALSE) EXCEPT !.debug.serverFps = fps_server]
  IN IF result = None \/ Len(result.face_landmarks) = 0 THEN payload
     ELSE
       LET blend == result.face_blendshapes
           smile_left == blendshape_lookup(blend, "mouthSmileLeft")
           smile_right == blendshape_lookup(blend, "mouthSmileRight")
           pose == IF result.facial_transformation_matrixes # <<>>
                   THEN extract_pose_from_matrix(result.facial_transformation_matrixes[1])
                   ELSE estimate_pose_from_landmarks(result.face_landmarks[1])
       IN IF pose.tag = "raise" THEN pose
          ELSE [payload EXCEPT
                  !.present = TRUE,
                  !.eye.leftOpen = 1000 - blendshape_lookup(blend, "eyeBlinkLeft"),
                  !.eye.rightOpen = 1000 - blendshape_lookup(blend, "eyeBlinkRight"),
                  !.mouth.open = blendshape_lookup(blend, "jawOpen"),
                  !.mouth.smile = (smile_left + smile_right) \div 2,
                  !.brow.leftUp = Max(blendshape_lookup(blend, "browInnerUp"),
                                      blendshape_lookup(blend, "browOuterUpLeft")),
                  !.brow.rightUp = Max(blendshape_lookup(blend, "browInnerUp"),
                                       blendshape_lookup(blend, "browOuterUpRight")),
                  !.pose = [yawDeg |-> pose.yaw, pitchDeg |-> pose.pitch,
                            rollDeg |-> pose.roll],
                  !.debug.latencyMs =
                     IF hdr.has_ts /\ hdr.ts # 0 THEN Max(0, now - hdr.ts) ELSE 0]

\* build_payload with line 186 moved below the return of line 188: serverFps is
\* set only for a detected face
build_payload_fps_when_present(result, hdr, fps_server, now) ==
  LET ts_ms == header_ts(hdr, now)
      payload == build_empty_payload(ts_ms, FALSE)
  IN IF result = None \/ Len(result.face_landmarks) = 0 THEN payload
     ELSE
       LET blend == result.face_blendshapes
           smile_left == blendshape_lookup(blend, "mouthSmileLeft")
           smile_right == blendshape_lookup(blend, "mouthSmileRight")
           pose == IF result.facial_transformation_matrixes # <<>>
                   THEN extract_pose_from_matrix(result.facial_transformation_matrixes[1])
                   ELSE estimate_pose_from_landmarks(result.face_landmarks[1])
       IN IF pose.tag = "raise" THEN pose
          ELSE [payload EXCEPT
                  !.present = TRUE,
                  !.debug.serverFps = fps_server,
                  !.eye.leftOpen = Max(0, 1000 - blendshape_lookup(blend, "eyeBlinkLeft")),
                  !.eye.rightOpen = Max(0, 1000 - blendshape_lookup(blend, "eyeBlinkRight")),
                  !.mouth.open = Min(1000, blendshape_lookup(blend, "jawOpen")),
                  !.mouth.smile = (smile_left + smile_right) \div 2,
                  !.brow.leftUp = Max(blendshape_lookup(blend, "browInnerUp"),
                                      blendshape_lookup(blend, "browOuterUpLeft")),
                  !.brow.rightUp = Max(blendshape_lookup(blend, "browInnerUp"),
                                       blendshape_lookup(blend, "browOuterUpRight")),
                  !.pose = [yawDeg |-> pose.yaw, pitchDeg |-> pose.pitch,
                            rollDeg |-> pose.roll],
                  !.debug.latencyMs =
                     IF hdr.has_ts /\ hdr.ts # 0 THEN Max(0, now - hdr.ts) ELSE 0]

\* build_payload with the test of line 204 inverted: the landmark estimate is
\* taken when there is a matrix
build_payload_landmarks_preferred(result, hdr, fps_server, now) ==
  LET ts_ms == header_ts(hdr, now)
      payload == [build_empty_payload(ts_ms, FALSE) EXCEPT !.debug.serverFps = fps_server]
  IN IF result = None \/ Len(result.face_landmarks) = 0 THEN payload
     ELSE
       LET blend == result.face_blendshapes
           smile_left == blendshape_lookup(blend, "mouthSmileLeft")
           smile_right == blendshape_lookup(blend, "mouthSmileRight")
           pose == IF result.facial_transformation_matrixes = <<>>
                   THEN extract_pose_from_matrix(FaceMatrix)
                   ELSE estimate_pose_from_landmarks(result.face_landmarks[1])
       IN IF pose.tag = "raise" THEN pose
          ELSE [payload EXCEPT
                  !.present = TRUE,
                  !.eye.leftOpen = Max(0, 1000 - blendshape_lookup(blend, "eyeBlinkLeft")),
                  !.eye.rightOpen = Max(0, 1000 - blendshape_lookup(blend, "eyeBlinkRight")),
                  !.mouth.open = Min(1000, blendshape_lookup(blend, "jawOpen")),
                  !.mouth.smile = (smile_left + smile_right) \div 2,
                  !.brow.leftUp = Max(blendshape_lookup(blend, "browInnerUp"),
                                      blendshape_lookup(blend, "browOuterUpLeft")),
                  !.brow.rightUp = Max(blendshape_lookup(blend, "browInnerUp"),
                                       blendshape_lookup(blend, "browOuterUpRight")),
                  !.pose = [yawDeg |-> pose.yaw, pitchDeg |-> pose.pitch,
                            rollDeg |-> pose.roll],
                  !.debug.latencyMs =
                     IF hdr.has_ts /\ hdr.ts # 0 THEN Max(0, now - hdr.ts) ELSE 0]

\* lines 183-212; [tag |-> "raise"] when the pose math raises
build_payload(result, hdr, fps_server, now) ==
  LET ts_ms == header_ts(hdr, now)
      payload == [build_empty_payload(ts_ms, FALSE) EXCEPT !.debug.serverFps = fps_server]
  IN IF result = None \/ Len(result.face_landmarks) = 0 THEN payload
     ELSE
       LET blend == result.face_blendshapes
           smile_left == blendshape_lookup(blend, "mouthSmileLeft")
           smile_right == blendshape_lookup(blend, "mouthSmileRight")
           pose == IF result.facial_transformation_matrixes # <<>>
                   THEN extract_pose_from_matrix(result.facial_transformation_matrixes[1])
                   ELSE estimate_pose_from_landmarks(result.face_landmarks[1])
       IN IF pose.tag = "raise" THEN pose
          ELSE [payload EXCEPT
                  !.present = TRUE,
                  !.eye.leftOpen = Max(0, 1000 - blendshape_lookup(blend, "eyeBlinkLeft")),
                  !.eye.rightOpen = Max(0, 1000 - blendshape_lookup(blend, "eyeBlinkRight")),
                  !.mouth.open = Min(1000, blendshape_lookup(blend, "jawOpen")),
                  !.mouth.smile = (smile_left + smile_right) \div 2,
                  !.brow.leftUp = Max(blendshape_lookup(blend, "browInnerUp"),
                                      blendshape_lookup(blend, "browOuterUpLeft")),
                  !.brow.rightUp = Max(blendshape_lookup(blend, "browInnerUp"),
                                       blendshape_lookup(blend, "browOuterUpRight")),
                  !.pose = [yawDeg |-> pose.yaw, pitchDeg |-> pose.pitch,
                            rollDeg |-> pose.roll],
                  !.debug.latencyMs =
                     IF hdr.has_ts /\ hdr.ts # 0 THEN Max(0, now - hdr.ts) ELSE 0]

---------------------------------------------------------------------------
(* FaceTracker *)

RECURSIVE Gcd(_, _)
Gcd(a, b) == IF b = 0 THEN a ELSE Gcd(b, a % b)

\* num / den in lowest terms
Frac(num, den) == <<num \div Gcd(num, den), den \div Gcd(num, den)>>

\* fps without the dt <= 0 guard of line 131, dividing by the magnitude
fps_unguarded(hist) ==
  IF Len(hist) < 2 THEN <<0, 1>>
  ELSE LET dt == hist[Len(hist)] - hist[1]
       IN IF dt = 0 THEN <<0, 1>>
          ELSE IF dt < 0 THEN Frac((Len(hist) - 1) * 1000, -dt)
          ELSE Frac((Len(hist) - 1) * 1000, dt)

\* lines 127-133: (len - 1) / (dt / 1000.0)
fps(hist) ==
  IF Len(hist) < 2 THEN <<0, 1>>
  ELSE LET dt == hist[Len(hist)] - hist[1]
       IN IF dt <= 0 THEN <<0, 1>>
          ELSE Frac((Len(hist) - 1) * 1000, dt)

\* the history with pop() in place of pop(0): the newest entry is dropped
hist_append_pop_newest(hist, ts) ==
  LET h == Append(hist, ts)
  IN IF Len(h) > HIST_MAX THEN SubSeq(h, 1, Len(h) - 1) ELSE h

\* lines 142-144: append, then pop(0) when longer than 30
hist_append(hist, ts) ==
  LET h == Append(hist, ts)
  IN IF Len(h) > HIST_MAX THEN Tail(h) ELSE h

\* the future objects something still refers to: the slot and the awaited ones
Live(fs, slot, calls) ==
  [i \in (({slot} \cup {calls[c] : c \in Conns}) \cap DOMAIN fs) |-> fs[i]]

\* line 124: self._future and not self._future.done()
slot_open(slot, fs) == slot # 0 /\ fs[slot].state = "pending"

---------------------------------------------------------------------------
(* Inputs *)

RECURSIVE Digits(_)
\* str(n).encode()
Digits(n) == IF n < 10 THEN <<48 + n>> ELSE Digits(n \div 10) \o <<48 + (n % 10)>>

\* struct.pack("<I", n)
LE4(n) == <<n % 256, (n \div 256) % 256, (n \div 65536) % 256, (n \div 16777216) % 256>>

HdrNoTs == <<123, 125>>
HdrTs(t) == TsKey \o Digits(t) \o <<125>>
HdrList == <<91, 93>>
HdrCut == <<123, 34>>
HdrNotUtf8 == <<255>>

Frame(header_len, hbytes, img) == LE4(header_len) \o hbytes \o img

NowValues == {1050, 1200}
\* the clock readings of the connection loops with two connections; latency
\* against both readings is covered by the calls on drawn inputs
LoopNowValues == {1200}
\* send_text either succeeds or raises on a dead socket (WebSocketDisconnect or
\* RuntimeError); lines 82-86 break on both, so "fault" stands for either
SendOutcomes == {"ok", "fault"}

\* frames the engine is given: a header and a picture that decodes
FrameMessages ==
  { Frame(11, HdrTs(1000), ImgFaceM),
    Frame(11, HdrTs(1100), ImgFaceBadM) }

\* well framed messages that never reach the engine: the picture does not decode,
\* is empty, or the header is JSON but no mapping
PlainMessages ==
  { Frame(11, HdrTs(1000), ImgBad),
    Frame(2, HdrNoTs, ImgBad),
    Frame(11, HdrTs(1100), ImgEmpty),
    Frame(2, HdrList, ImgBad) }

\* messages whose header slice is not UTF-8 JSON: buffers shorter than the
\* prefix, a declared header length that runs the header into the image bytes
\* or cuts it short, header bytes that are not JSON, header bytes that are not UTF-8
BrokenHeaderMessages ==
  { <<>>,
    <<2, 0>>,
    Frame(20, HdrTs(1000), ImgFaceM),
    Frame(1, HdrNoTs, ImgFaceM),
    Frame(2, HdrCut, ImgFaceM),
    Frame(1, HdrNotUtf8, ImgFaceM) }

\* malformed messages: those, and a declared header length larger than the
\* bytes that follow it
MalformedMessages ==
  BrokenHeaderMessages \cup {Frame(20, HdrTs(1000), ImgEmpty)}

Messages == FrameMessages \cup PlainMessages \cup MalformedMessages

---------------------------------------------------------------------------
(* State *)

Init ==
  /\ pc = [c \in Conns |-> "receive"]
  /\ header = [c \in Conns |-> None]
  /\ call = [c \in Conns |-> 0]
  /\ future = 0
  /\ futs = <<>>
  /\ latest = None
  /\ latest_ts = 0
  /\ fps_hist = <<>>
  /\ inflight = {}
  /\ nextId = 1
  /\ ev = [kind |-> "init", conn |-> "none", id |-> 0, ret |-> None,
           raw |-> <<>>, so |-> "none", sent |-> <<>>]
  /\ completions = <<>>

tracker_vars == <<future, futs, latest, latest_ts, fps_hist, inflight, nextId, completions>>

---------------------------------------------------------------------------
(* ws_track: one pass of the loop up to its next suspension *)

NoCall == [id |-> 0, ret |-> None, raw |-> <<>>]
Msg(raw) == [id |-> 0, ret |-> None, raw |-> raw]

\* lines 87-92: the message is answered with {"error": ...} if the socket takes
\* it, and the loop goes on
ErrorPath(c, so, kind, exc, x) ==
  /\ pc' = [pc EXCEPT ![c] = "receive"]
  /\ header' = [header EXCEPT ![c] = None]
  /\ call' = [call EXCEPT ![c] = 0]
  /\ ev' = [kind |-> kind, conn |-> c, id |-> x.id, ret |-> x.ret, raw |-> x.raw,
            so |-> so,
            sent |-> IF so = "ok" THEN <<[error |-> exc]>> ELSE <<>>]

\* lines 66-67, 82-86: break
BreakPath(c, kind, x) ==
  /\ pc' = [pc EXCEPT ![c] = "closed"]
  /\ header' = [header EXCEPT ![c] = None]
  /\ call' = [call EXCEPT ![c] = 0]
  /\ ev' = [kind |-> kind, conn |-> c, id |-> x.id, ret |-> x.ret, raw |-> x.raw, so |-> "none",
            sent |-> <<>>]

\* lines 77 and 81: send_text of a payload; a failed send is a WebSocketDisconnect
\* or a RuntimeError, and both end the loop (lines 82-86)
SendPath(c, so, kind, payload, x) ==
  /\ pc' = [pc EXCEPT ![c] = IF so = "ok" THEN "receive" ELSE "closed"]
  /\ header' = [header EXCEPT ![c] = None]
  /\ call' = [call EXCEPT ![c] = 0]
  /\ ev' = [kind |-> kind, conn |-> c, id |-> x.id, ret |-> x.ret, raw |-> x.raw,
            so |-> so,
            sent |-> IF so = "ok" THEN <<payload>> ELSE <<>>]

\* lines 65-67: the disconnect message
ws_disconnect(c) ==
  /\ pc[c] = "receive"
  /\ BreakPath(c, "disconnect", NoCall)
  /\ UNCHANGED tracker_vars

\* lines 65, 82-86: receive() raises on a dead socket
ws_receive_fault(c) ==
  /\ pc[c] = "receive"
  /\ BreakPath(c, "receive_fault", NoCall)
  /\ UNCHANGED tracker_vars

\* a loop without the test of line 68: message["bytes"] raises KeyError and the
\* handler of lines 87-92 answers
ws_text_answered(c) ==
  /\ pc[c] = "receive"
  /\ ErrorPath(c, "ok", "text", "KeyError", NoCall)
  /\ UNCHANGED tracker_vars

\* lines 68-69: a message without bytes
ws_text(c) ==
  /\ pc[c] = "receive"
  /\ ev' = [kind |-> "text", conn |-> c, id |-> 0, ret |-> None, raw |-> <<>>, so |-> "none",
            sent |-> <<>>]
  /\ UNCHANGED <<pc, header, call, tracker_vars>>

\* lines 70-72, 87-92: the header slice does not decode or parse
ws_parse_error(c, raw, so) ==
  /\ pc[c] = "receive"
  /\ Demux(raw).header.tag \in {"UnicodeDecodeError", "JSONDecodeError"}
  /\ ErrorPath(c, so, "parse_error", Demux(raw).header.tag, Msg(raw))
  /\ UNCHANGED tracker_vars

\* lines 74, 87-92: cv2.imdecode raises out of decode_jpeg
ws_decode_raise(c, raw, so) ==
  /\ pc[c] = "receive"
  /\ Demux(raw).header.tag \in {"dict", "list"}
  /\ [tag |-> "raise"] \in decode_jpeg(Demux(raw).jpeg_bytes)
  /\ ErrorPath(c, so, "decode_raise", "cv2.error", Msg(raw))
  /\ UNCHANGED tracker_vars

\* lines 75, 87-92: header.get on a header that is no mapping
ws_header_error(c, raw, so) ==
  /\ pc[c] = "receive"
  /\ Demux(raw).header.tag = "list"
  /\ \E frame_rgb \in decode_jpeg(Demux(raw).jpeg_bytes) : frame_rgb.tag # "raise"
  /\ ErrorPath(c, so, "header_error", "AttributeError", Msg(raw))
  /\ UNCHANGED tracker_vars

\* lines 76-78: decode gave None; the empty payload is sent, the tracker is not called
ws_decode_absent(c, raw, so, now) ==
  /\ pc[c] = "receive"
  /\ Demux(raw).header.tag = "dict"
  /\ None \in decode_jpeg(Demux(raw).jpeg_bytes)
  /\ SendPath(c, so, "decode_absent",
              build_empty_payload(header_ts(Demux(raw).header, now), FALSE), Msg(raw))
  /\ UNCHANGED tracker_vars

\* lines 79, 136-141: process creates the future, puts it in the slot, hands the
\* frame to the engine and suspends in wait_for
ws_process(c, raw, now) ==
  /\ pc[c] = "receive"
  /\ Demux(raw).header.tag = "dict"
  /\ \E frame_rgb \in decode_jpeg(Demux(raw).jpeg_bytes) :
       /\ frame_rgb.tag = "raster"
       /\ inflight' = inflight \cup
            {[id |-> nextId, ts |-> header_ts(Demux(raw).header, now), frame_rgb |-> frame_rgb]}
  /\ nextId' = nextId + 1
  /\ future' = nextId
  /\ pc' = [pc EXCEPT ![c] = "awaiting"]
  /\ header' = [header EXCEPT ![c] = Demux(raw).header]
  /\ call' = [call EXCEPT ![c] = nextId]
  /\ futs' = Live((nextId :> [state |-> "pending", val |-> None]) @@ futs, nextId, call')
  /\ ev' = [kind |-> "submit", conn |-> c, id |-> nextId, ret |-> None, raw |-> raw, so |-> "none",
            sent |-> <<>>]
  /\ UNCHANGED <<latest, latest_ts, fps_hist, completions>>

\* lines 79, 136-139, 84-92: detect_async raises; the new future stays in the
\* slot; a RuntimeError ends the loop, any other exception is answered
ws_process_raise(c, raw, so, eo) ==
  /\ pc[c] = "receive"
  /\ Demux(raw).header.tag = "dict"
  /\ \E frame_rgb \in decode_jpeg(Demux(raw).jpeg_bytes) : frame_rgb.tag = "raster"
  /\ eo # "ok"
  /\ nextId' = nextId + 1
  /\ future' = nextId
  /\ futs' = Live((nextId :> [state |-> "pending", val |-> None]) @@ futs, nextId, call)
  /\ IF eo = "RuntimeError"
     THEN BreakPath(c, "engine_RuntimeError", [id |-> nextId, ret |-> None, raw |-> raw])
     ELSE ErrorPath(c, so, "engine_error", eo, [id |-> nextId, ret |-> None, raw |-> raw])
  /\ UNCHANGED <<latest, latest_ts, fps_hist, inflight, completions>>

---------------------------------------------------------------------------
(* The engine's callback and the end of a process call *)

\* _on_result without the done() test of line 124: whatever future is in the
\* slot takes the result
on_result_unguarded(req) ==
  /\ req \in inflight
  /\ inflight' = inflight \ {req}
  /\ latest' = Detect(req.frame_rgb, req.id)
  /\ latest_ts' = req.ts
  /\ futs' = IF future # 0
             THEN [futs EXCEPT ![future] =
                     [state |-> "done", val |-> <<Detect(req.frame_rgb, req.id), req.ts>>]]
             ELSE futs
  /\ ev' = [kind |-> "on_result", conn |-> "engine", id |-> req.id,
            ret |-> None, raw |-> <<>>, so |-> "none",
            sent |-> <<>>]
  /\ UNCHANGED <<pc, header, call, future, fps_hist, nextId, completions>>

\* lines 121-125
on_result(req) ==
  /\ req \in inflight
  /\ inflight' = inflight \ {req}
  /\ latest' = Detect(req.frame_rgb, req.id)
  /\ latest_ts' = req.ts
  /\ futs' = IF slot_open(future, futs)
             THEN [futs EXCEPT ![future] =
                     [state |-> "done", val |-> <<Detect(req.frame_rgb, req.id), req.ts>>]]
             ELSE futs
  /\ ev' = [kind |-> "on_result", conn |-> "engine", id |-> req.id,
            ret |-> None, raw |-> <<>>, so |-> "none",
            sent |-> <<>>]
  /\ UNCHANGED <<pc, header, call, future, fps_hist, nextId, completions>>

\* lines 141-145, 80-81: wait_for returns the future's value; the timestamp goes
\* into the history; the payload is assembled and sent
process_return(c, so, now) ==
  /\ pc[c] = "awaiting"
  /\ futs[call[c]].state = "done"
  /\ LET result == futs[call[c]].val[1]
         ts == futs[call[c]].val[2]
         hist == hist_append(fps_hist, ts)
         payload == build_payload(result, header[c], fps(hist), now)
         x == [id |-> call[c], ret |-> result, raw |-> <<>>]
     IN /\ fps_hist' = hist
        /\ completions' = Append(completions, ts)
        /\ IF "tag" \in DOMAIN payload
           THEN ErrorPath(c, so, "pose_error", "ValueError", x)
           ELSE SendPath(c, so, "return", payload, x)
  /\ futs' = Live(futs, future, call')
  /\ UNCHANGED <<future, latest, latest_ts, inflight, nextId>>

\* the timer of wait_for passing without the future being cancelled
wait_for_timeout_shielded(c) ==
  /\ pc[c] = "awaiting"
  /\ futs[call[c]].state = "pending"
  /\ ev' = [kind |-> "cancel", conn |-> c, id |-> call[c], ret |-> None, raw |-> <<>>,
            so |-> "none", sent |-> <<>>]
  /\ UNCHANGED <<pc, header, call, tracker_vars>>

\* line 141: the second passes first; wait_for finds the future not done,
\* cancels it and yields to the loop until the cancellation is delivered. The
\* connection stays suspended in process; other connections and callbacks run.
wait_for_timeout(c) ==
  /\ pc[c] = "awaiting"
  /\ futs[call[c]].state = "pending"
  /\ futs' = [futs EXCEPT ![call[c]].state = "cancelled"]
  /\ ev' = [kind |-> "cancel", conn |-> c, id |-> call[c], ret |-> None, raw |-> <<>>,
            so |-> "none", sent |-> <<>>]
  /\ UNCHANGED <<pc, header, call, future, latest, latest_ts, fps_hist, inflight, nextId,
                 completions>>

\* a timeout that still records the request's timestamp in the history
process_timeout_records(c, so, now) ==
  /\ pc[c] = "awaiting"
  /\ futs[call[c]].state \in {"cancelled", "done"}
  /\ fps_hist' = hist_append(fps_hist, header_ts(header[c], now))
  /\ SendPath(c, so, "timeout", build_payload(None, header[c], fps(fps_hist'), now),
              [id |-> call[c], ret |-> None, raw |-> <<>>])
  /\ futs' = Live(futs, future, call')
  /\ UNCHANGED <<future, latest, latest_ts, inflight, nextId, completions>>

\* lines 141, 146-147, 80-81: wait_for raises TimeoutError; process returns
\* None; the payload is assembled and sent. With the future cancelled this is
\* the resumption after wait_for_timeout. With the future done it is the race
\* of the timer with the callback, whose outcome depends on the interpreter:
\* the wait_for of Python 3.11 and earlier returns the result (process_return),
\* the wait_for of Python 3.12 and later cancels the task once the timer's
\* handle has run, and the result is dropped. The source fixes no version, so
\* both outcomes are steps of the model.
process_timeout(c, so, now) ==
  /\ pc[c] = "awaiting"
  /\ futs[call[c]].state \in {"cancelled", "done"}
  /\ SendPath(c, so, "timeout", build_payload(None, header[c], fps(fps_hist), now),
              [id |-> call[c], ret |-> None, raw |-> <<>>])
  /\ futs' = Live(futs, future, call')
  /\ UNCHANGED <<future, latest, latest_ts, fps_hist, inflight, nextId, completions>>

---------------------------------------------------------------------------
(* Specifications *)

Receiving == {c \in Conns : pc[c] = "receive"}
Awaiting == {c \in Conns : pc[c] = "awaiting"}

\* the messages by what line 72 makes of them
Unparsed == {raw \in Messages : Demux(raw).header.tag \notin {"dict", "list"}}
Parsed == Messages \ Unparsed

Next ==
  \/ \E c \in Receiving : ws_disconnect(c)
  \/ \E c \in Receiving : ws_receive_fault(c)
  \/ \E c \in Receiving : ws_text(c)
  \/ \E c \in Receiving, raw \in Unparsed, so \in SendOutcomes : ws_parse_error(c, raw, so)
  \/ \E c \in Receiving, raw \in Parsed, so \in SendOutcomes : ws_decode_raise(c, raw, so)
  \/ \E c \in Receiving, raw \in Parsed, so \in SendOutcomes : ws_header_error(c, raw, so)
  \/ \E c \in Receiving, raw \in Parsed, so \in SendOutcomes, now \in LoopNowValues :
       ws_decode_absent(c, raw, so, now)
  \/ \E c \in Receiving, raw \in Parsed, now \in LoopNowValues :
       nextId <= MaxFrames /\ ws_process(c, raw, now)
  \/ \E c \in Receiving, raw \in Parsed, so \in SendOutcomes, eo \in EngineOutcomes :
       nextId <= MaxFrames /\ ws_process_raise(c, raw, so, eo)
  \/ \E req \in inflight : on_result(req)
  \/ \E c \in Awaiting, so \in SendOutcomes, now \in LoopNowValues : process_return(c, so, now)
  \/ \E c \in Awaiting : wait_for_timeout(c)
  \/ \E c \in Awaiting, so \in SendOutcomes, now \in LoopNowValues : process_timeout(c, so, now)

Spec == Init /\ [][Next]_vars

---------------------------------------------------------------------------
(* One connection streaming frames: each message is a well framed frame with a
   face, its ts rising by 100 ms and wrapping after 37 frames; every send
   succeeds and the engine answers in the order of submission. *)

SoloTs(k) == 1000 + 100 * ((k - 1) % 37)
SoloMessage(k) == Frame(Len(HdrTs(SoloTs(k))), HdrTs(SoloTs(k)), ImgFaceM)

\* only the first MaxSoloTimeouts calls may time out
NextSolo ==
  \/ nextId <= MaxSoloCalls /\ ws_process("a", SoloMessage(nextId), 5000)
  \/ \E req \in inflight : (\A r \in inflight : req.id <= r.id) /\ on_result(req)
  \/ process_return("a", "ok", 5000)
  \/ call["a"] <= MaxSoloTimeouts /\ wait_for_timeout("a")
  \/ call["a"] <= MaxSoloTimeouts /\ process_timeout("a", "ok", 5000)

SpecSolo == Init /\ [][NextSolo]_vars

---------------------------------------------------------------------------
(* One connection sending frames, with the event loop's guarantee: a process
   call suspended in wait_for is resumed, by the future's completion or by the
   one-second timer (line 141). The engine owes no callback. *)

NextLive ==
  \/ \E raw \in FrameMessages, now \in NowValues :
       nextId <= MaxLiveCalls /\ ws_process("a", raw, now)
  \/ \E req \in inflight : on_result(req)
  \/ \E so \in SendOutcomes, now \in NowValues : process_return("a", so, now)
  \/ wait_for_timeout("a")
  \/ \E so \in SendOutcomes, now \in NowValues : process_timeout("a", so, now)

wait_for_resumes ==
  \/ wait_for_timeout("a")
  \/ \E so \in SendOutcomes, now \in NowValues :
       process_return("a", so, now) \/ process_timeout("a", so, now)

SpecLive == Init /\ [][NextLive]_vars /\ WF_vars(wait_for_resumes)

---------------------------------------------------------------------------
(* Two connections, each streaming its own picture under its own ts, so that a
   result and a timestamp tell the connection whose frame they were produced
   for. Every send succeeds. *)

CrossTs(c) == IF c = "a" THEN 1000 ELSE 1100
CrossImg(c) == IF c = "a" THEN ImgFaceM ELSE ImgFaceL
CrossMessage(c) == Frame(Len(HdrTs(CrossTs(c))), HdrTs(CrossTs(c)), CrossImg(c))

NextCross ==
  \/ \E c \in Receiving : nextId <= MaxCrossCalls /\ ws_process(c, CrossMessage(c), 1200)
  \/ \E req \in inflight : on_result(req)
  \/ \E c \in Awaiting : process_return(c, "ok", 1200)
  \/ \E c \in Awaiting : wait_for_timeout(c)
  \/ \E c \in Awaiting : process_timeout(c, "ok", 1200)

SpecCross == Init /\ [][NextCross]_vars

---------------------------------------------------------------------------
(* The pure functions, applied to drawn inputs: fps() on a history, and the
   assembly of line 80, build_payload(result, header, face_tracker.fps()). *)

PureTs == {1000, 1100, 1200}
PureHists == UNION {[1..n -> PureTs] : n \in 0..MaxPureHist}
PureResults == {None} \cup {Detect([tag |-> "raster", px |-> px], 1) : px \in 0..5}
PureBlendshapes == {<<>>, <<FaceBlendshapes>>, <<FaceBlendshapesOver>>}
PureNames == {"jawOpen", "eyeBlinkLeft", "eyeBlinkRight", "browOuterUpRight", "tongueOut"}
PureHeaders == {json_loads(h) : h \in {HdrNoTs, HdrTs(0), HdrTs(1000), HdrTs(1100)}}

InitPure ==
  /\ pc = [c \in Conns |-> "receive"]
  /\ header = [c \in Conns |-> None]
  /\ call = [c \in Conns |-> 0]
  /\ future = 0
  /\ futs = <<>>
  /\ latest = None
  /\ latest_ts = 0
  /\ fps_hist \in PureHists
  /\ inflight = {}
  /\ nextId = 1
  /\ ev = [kind |-> "init", conn |-> "none", id |-> 0, ret |-> None,
           raw |-> <<>>, so |-> "none", sent |-> <<>>]
  /\ completions = fps_hist

call_fps ==
  /\ ev' = [kind |-> "fps", out |-> fps(fps_hist)]
  /\ UNCHANGED <<pc, header, call, tracker_vars>>

call_build_payload(result, hdr, now) ==
  /\ ev' = [kind |-> "build_payload", result |-> result, hdr |-> hdr, now |-> now,
            fps_server |-> fps(fps_hist),
            out |-> build_payload(result, hdr, fps(fps_hist), now)]
  /\ UNCHANGED <<pc, header, call, tracker_vars>>

\* sine and cosine of the multiples of 45 degrees
SinDeg(a) ==
  IF a = 90 THEN Num(1) ELSE IF a = -90 THEN Num(-1)
  ELSE IF a \in {45, 135} THEN HalfRoot2
  ELSE IF a \in {-45, -135} THEN Neg(HalfRoot2)
  ELSE Num(0)

CosDeg(a) ==
  IF a = 0 THEN Num(1) ELSE IF a \in {180, -180} THEN Num(-1)
  ELSE IF a \in {45, -45} THEN HalfRoot2
  ELSE IF a \in {135, -135} THEN Neg(HalfRoot2)
  ELSE Num(0)

\* the 4x4 row-major matrix of the rotation Rz(roll) Ry(yaw) Rx(pitch), the
\* composition that the extraction of lines 221-223 decomposes
RotationMatrix(yaw, pitch, roll) ==
  LET cy == CosDeg(yaw)   sy == SinDeg(yaw)
      cp == CosDeg(pitch) sp == SinDeg(pitch)
      cr == CosDeg(roll)  sr == SinDeg(roll)
      m == << Mul(cr, cy), Sub(Mul(Mul(cr, sy), sp), Mul(sr, cp)),
              Add(Mul(Mul(cr, sy), cp), Mul(sr, sp)), Num(0),
              Mul(sr, cy), Add(Mul(Mul(sr, sy), sp), Mul(cr, cp)),
              Sub(Mul(Mul(sr, sy), cp), Mul(cr, sp)), Num(0),
              Neg(sy), Mul(cy, sp), Mul(cy, cp), Num(0),
              Num(0), Num(0), Num(0), Num(1) >>
  IN [i \in 1..16 |-> Reduce(m[i])]

PureAngles == {-135, -90, -45, 0, 45, 90, 135, 180}
PureMatrices ==
  {RotationMatrix(yaw, pitch, roll) : yaw \in PureAngles, pitch \in PureAngles,
                                      roll \in PureAngles}
    \cup {<<Num(1), Num(0), Num(0)>>}

\* the extraction reads nothing of the tracker, so it is called under one
\* history only
call_extract_pose_from_matrix(matrix) ==
  /\ fps_hist = <<>>
  /\ ev' = [kind |-> "extract_pose_from_matrix", matrix |-> matrix,
            out |-> extract_pose_from_matrix(matrix)]
  /\ UNCHANGED <<pc, header, call, tracker_vars>>

call_blendshape_lookup(blendshapes, name) ==
  /\ ev' = [kind |-> "blendshape_lookup", blendshapes |-> blendshapes, name |-> name,
            out |-> blendshape_lookup(blendshapes, name)]
  /\ UNCHANGED <<pc, header, call, tracker_vars>>

NextPure ==
  \/ call_fps
  \/ \E blendshapes \in PureBlendshapes, name \in PureNames :
       call_blendshape_lookup(blendshapes, name)
  \/ \E matrix \in PureMatrices : call_extract_pose_from_matrix(matrix)
  \/ \E result \in PureResults, hdr \in PureHeaders, now \in NowValues :
       call_build_payload(result, hdr, now)

SpecPure == InitPure /\ [][NextPure]_vars

---------------------------------------------------------------------------
(* Claims *)

IsPayload(m) == "present" \in DOMAIN m
IsError(m) == "error" \in DOMAIN m

\* the steps that end the handling of a binary message
BinaryDone ==
  {"parse_error", "decode_raise", "header_error", "decode_absent", "engine_error",
   "engine_RuntimeError", "pose_error", "return", "timeout"}

\* C1: the result a process call returns, and the timestamp it records, are the
\* ones the engine produced for the frame of that call, never those of an
\* earlier frame whose call timed out.
C1_ResultIsForOwnFrame ==
  ev.kind \in {"return", "pose_error"} =>
    /\ ev.ret.frame = ev.id
    /\ completions[Len(completions)] = SoloTs(ev.id)

\* C2: at most one process call on the tracker is awaiting at any time, also
\* with several connections open.
C2_OneAwaiting == Cardinality(Awaiting) <= 1

\* C3: the handling of every binary message sends exactly one message (a
\* payload or an error payload) before the connection receives again, unless
\* the socket refuses the send.
C3_OneReplyPerMessage ==
  (ev.kind \in BinaryDone /\ ev.so \in {"ok", "none"}) =>
    /\ Len(ev.sent) = 1
    /\ IsPayload(ev.sent[1]) \/ IsError(ev.sent[1])

\* C4: a connection loop ends only on a transport-level fault (the disconnect
\* message, a receive that raises, a send that raises); every fault of the
\* handling of a message is answered with an error payload and the loop goes on.
C4_OnlyTransportFaultsClose ==
  \A c \in Conns :
    (ev.conn = c /\ pc[c] = "closed") =>
      (ev.kind \in {"disconnect", "receive_fault"} \/ ev.so \notin {"ok", "none"})

\* C5: a malformed binary message (shorter than the prefix, a declared header
\* length beyond the bytes that follow, header bytes that are not UTF-8 JSON) is
\* answered with an Output Payload with present = FALSE, not an error payload,
\* and the connection stays open.
C5_MalformedGetsAbsentPayload ==
  (ev.raw \in MalformedMessages /\ ev.kind \in BinaryDone /\ ev.so # "fault") =>
    /\ pc[ev.conn] = "receive"
    /\ Len(ev.sent) = 1
    /\ IsPayload(ev.sent[1])
    /\ ev.sent[1].present = FALSE

\* C6: when the timeout of a process call passes before the callback fires,
\* the future is cancelled and process returns absent, neither step changing the
\* history; the loop sends one Output Payload with present = FALSE for the
\* message and receives again. The same holds of a timeout that drops the
\* result of a callback that fired after the timer.
C6_TimeoutIsAbsent ==
  [][/\ ev'.kind = "cancel" =>
        /\ fps_hist' = fps_hist
        /\ pc' = pc
        /\ futs'[ev'.id].state = "cancelled"
     /\ ev'.kind = "timeout" =>
       /\ futs[ev'.id].state # "pending"
       /\ fps_hist' = fps_hist
       /\ ev'.ret = None
       /\ ev'.so = "ok" =>
            /\ Len(ev'.sent) = 1
            /\ IsPayload(ev'.sent[1])
            /\ ev'.sent[1].present = FALSE
            /\ pc'[ev'.conn] = "receive"]_vars

\* C6: a call has timed out, its payload is sent and the connection receives again
C6_Witness ==
  /\ ev.kind = "timeout"
  /\ futs[future].state = "cancelled"
  /\ ev.so = "ok"
  /\ Len(ev.sent) = 1 /\ IsPayload(ev.sent[1]) /\ ev.sent[1].present = FALSE
  /\ pc[ev.conn] = "receive"

\* C7: the history never holds more than 30 entries; after n completed process
\* calls it holds the timestamps of the latest min(n, 30) completions, oldest first.
C7_HistoryIsLatest30 ==
  LET n == Len(completions)
      k == IF n < 30 THEN n ELSE 30
  IN /\ Len(fps_hist) <= 30
     /\ fps_hist = SubSeq(completions, n - k + 1, n)

\* C7: 40 calls completed and the history holds 30 entries
C7_Witness ==
  /\ Len(completions) = 40
  /\ Len(fps_hist) = 30
  /\ fps_hist[1] = completions[11]

\* C8: when the picture of a message does not decode (decode_jpeg returns
\* None), the loop sends the empty payload with present = FALSE and the
\* message's ts (the current time when the header has none) and does not call
\* the tracker: no request is submitted, the slot and the history are
\* unchanged; the connection stays open.
C8_DecodeAbsentSendsEmpty ==
  [][\A hdr \in {HdrTs(1000), HdrNoTs} :
       ( /\ ev'.raw = Frame(Len(hdr), hdr, ImgBad)
         /\ ev'.kind \in BinaryDone \cup {"submit"} ) =>
           /\ UNCHANGED tracker_vars
           /\ ev'.so = "ok" =>
                /\ \E now \in NowValues :
                     ev'.sent = <<build_empty_payload(header_ts(json_loads(hdr), now), FALSE)>>
                /\ ev'.sent[1].present = FALSE
                /\ hdr = HdrTs(1000) => ev'.sent[1].ts = 1000
                /\ pc'[ev'.conn] = "receive"]_vars

\* C8: an undecodable picture under a header with ts 1000 has been answered
C8_Witness ==
  /\ ev.kind = "decode_absent"
  /\ ev.raw = Frame(11, HdrTs(1000), ImgBad)
  /\ ev.so = "ok"
  /\ Len(ev.sent) = 1 /\ ev.sent[1].ts = 1000 /\ ev.sent[1].present = FALSE
  /\ pc[ev.conn] = "receive"
  /\ nextId = 1 /\ future = 0 /\ inflight = {}

\* C9: fps() is 0 with fewer than 2 entries, 0 when newest - oldest <= 0 (so
\* never negative), else (count - 1) / ((newest - oldest) / 1000); it is 10 for
\* the history [1000, 1100, 1200].
C9_Fps ==
  ev.kind = "fps" =>
    LET n == Len(fps_hist)
        dt == fps_hist[n] - fps_hist[1]
        num == ev.out[1]
        den == ev.out[2]
    IN /\ den > 0 /\ num >= 0
       /\ n < 2 => num = 0
       /\ (n >= 2 /\ dt <= 0) => num = 0
       /\ (n >= 2 /\ dt > 0) => num * dt = den * (n - 1) * 1000
       /\ fps_hist = <<1000, 1100, 1200>> => ev.out = <<10, 1>>

\* C9: fps() was taken of [1000, 1100, 1200]
C9_Witness ==
  ev.kind = "fps" /\ fps_hist = <<1000, 1100, 1200>> /\ ev.out = <<10, 1>>

\* C10: for a header with ts = T, the payload assembled for an absent detection
\* (no result, or a result with no face) has present = FALSE, ts = T, both eyes
\* 1.0, mouth and brow 0 and a zero pose.
C10_AbsentPayload ==
  \A t \in {0, 1000, 1100} :
    ( /\ ev.kind = "build_payload"
      /\ ev.hdr = json_loads(HdrTs(t))
      /\ (ev.result = None \/ ev.result.face_landmarks = <<>>) ) =>
        /\ ev.out.present = FALSE
        /\ ev.out.ts = t
        /\ ev.out.eye = [leftOpen |-> 1000, rightOpen |-> 1000]
        /\ ev.out.mouth = [open |-> 0, smile |-> 0]
        /\ ev.out.brow = [leftUp |-> 0, rightUp |-> 0]
        /\ ev.out.pose = [yawDeg |-> 0, pitchDeg |-> 0, rollDeg |-> 0]

\* C10: a payload was assembled from a result with no face under ts 1000
C10_Witness ==
  /\ ev.kind = "build_payload"
  /\ ev.hdr = json_loads(HdrTs(1000))
  /\ ev.result # None /\ ev.result.face_landmarks = <<>>
  /\ ev.out.present = FALSE /\ ev.out.ts = 1000

\* the payloads assembled for a detected face
FaceAssembled ==
  /\ ev.kind = "build_payload"
  /\ ev.result # None
  /\ Len(ev.result.face_landmarks) > 0
  /\ IsPayload(ev.out)

\* C11: for a payload with a detected face, debug.latencyMs is
\* max(0, now - header.ts) whenever the header declares ts, whatever integer it
\* is (0 included), and 0 when the header declares none; it is never negative.
C11_Latency ==
  FaceAssembled =>
    /\ ev.out.debug.latencyMs >= 0
    /\ ev.out.debug.latencyMs = (IF ev.hdr.has_ts THEN Max(0, ev.now - ev.hdr.ts) ELSE 0)

\* the category names of the first face of a blendshape list
CategoryNames(blendshapes) ==
  IF blendshapes = <<>> THEN {}
  ELSE {blendshapes[1][i].category_name : i \in 1..Len(blendshapes[1])}

\* C12: blendshape lookup returns 0.0 for a category name that is not in the
\* list and never fails; in an assembled payload mouth.open is at most 1.0, also
\* for a jawOpen score above 1.0, and eye.leftOpen is at least 0.0, also for a
\* left blink score above 1.0.
C12_LookupAndClamp ==
  /\ (ev.kind = "blendshape_lookup" /\ ev.name \notin CategoryNames(ev.blendshapes)) =>
       ev.out = 0
  /\ FaceAssembled =>
       /\ ev.out.mouth.open <= 1000
       /\ ev.out.eye.leftOpen >= 0

\* C12: a payload was assembled from a jawOpen score of 1.5 and a left blink
\* score of 1.2
C12_Witness ==
  /\ FaceAssembled
  /\ ev.result.face_blendshapes = <<FaceBlendshapesOver>>
  /\ blendshape_lookup(ev.result.face_blendshapes, "jawOpen") = 1500
  /\ blendshape_lookup(ev.result.face_blendshapes, "eyeBlinkLeft") = 1200
  /\ ev.out.mouth.open = 1000
  /\ ev.out.eye.leftOpen = 0

\* the decomposition gave back the angles the matrix was built from
Recovers(yaw, pitch, roll) ==
  ev.out = [tag |-> "pose", yaw |-> yaw, pitch |-> pitch, roll |-> roll]

\* C13, as stated: for every (yaw, pitch, roll) in the non-singular regime
\* (sy >= 1e-6, that is cos(yaw) # 0), building the rotation matrix from the
\* angles and decomposing it recovers the same angles.
C13_RoundTrip ==
  \A yaw \in PureAngles, pitch \in PureAngles, roll \in PureAngles :
    ( /\ ev.kind = "extract_pose_from_matrix"
      /\ ev.matrix = RotationMatrix(yaw, pitch, roll)
      /\ Sign(CosDeg(yaw)) # 0 ) => Recovers(yaw, pitch, roll)

\* C13, amended: for yaw strictly between -90 and 90 degrees and pitch and roll
\* in (-180, 180], building the rotation matrix from the angles and decomposing
\* it recovers the same angles.
C13_RoundTripFrontalYaw ==
  \A yaw \in {a \in PureAngles : -90 < a /\ a < 90}, pitch \in PureAngles, roll \in PureAngles :
    ( /\ ev.kind = "extract_pose_from_matrix"
      /\ ev.matrix = RotationMatrix(yaw, pitch, roll) ) => Recovers(yaw, pitch, roll)

\* C13: the matrix of yaw -45, pitch 135, roll 180 was decomposed into those
\* angles
C13_Witness ==
  /\ ev.kind = "extract_pose_from_matrix"
  /\ ev.matrix = RotationMatrix(-45, 135, 180)
  /\ ev.matrix # RotationMatrix(0, 135, 180)
  /\ Recovers(-45, 135, 180)

\* the payloads assembled for an absent detection
AbsentAssembled ==
  /\ ev.kind = "build_payload"
  /\ (ev.result = None \/ ev.result.face_landmarks = <<>>)

\* C14, as stated: for an absent detection both debug fields of the payload are
\* zero, whatever serverFps was passed in and whatever ts the header declares.
C14_AbsentDebugZero ==
  AbsentAssembled =>
    /\ ev.out.debug.serverFps = <<0, 1>>
    /\ ev.out.debug.latencyMs = 0

\* C14, amended: for an absent detection debug.latencyMs is 0 whatever ts the
\* header declares, and debug.serverFps is the serverFps value passed in.
C14_AbsentDebugPassesFps ==
  AbsentAssembled =>
    /\ ev.out.debug.serverFps = ev.fps_server
    /\ ev.out.debug.latencyMs = 0

\* C14: an absent detection was assembled under ts 1000 with serverFps 10
C14_Witness ==
  /\ AbsentAssembled
  /\ ev.hdr = json_loads(HdrTs(1000))
  /\ ev.now = 1200
  /\ ev.fps_server = <<10, 1>>
  /\ ev.out.debug = [serverFps |-> <<10, 1>>, latencyMs |-> 0]

\* the process call with future k has returned and the slot holds no pending future
Returned(k) ==
  /\ ev.id = k
  /\ ev.kind \in {"return", "pose_error", "timeout"}
  /\ ev.kind = "timeout" <=> ev.ret = None
  /\ pc["a"] # "awaiting"
  /\ ~slot_open(future, futs)

\* C15: every process call eventually returns and leaves the tracker Idle: the
\* callback fires first and process returns the detection result, or the
\* timeout passes first and process returns absent; the caller is not
\* suspended forever.
C15_ProcessReturns ==
  \A k \in 1..MaxLiveCalls : (pc["a"] = "awaiting" /\ call["a"] = k) ~> Returned(k)

\* C15: the third call returned a detection result and the slot is not pending
C15_Witness ==
  /\ Returned(3)
  /\ ev.kind = "return"
  /\ ev.ret # None

PoseOf(p) == [yawDeg |-> p.yaw, pitchDeg |-> p.pitch, rollDeg |-> p.roll]

\* C16: one pose algorithm runs per present-face payload: the matrix-based
\* estimator whenever the result carries a transformation matrix (its failure
\* is the failure of the assembly, with no fallback), the landmark-based one
\* only when it carries none; the absent-detection payload keeps the zero pose.
C16_OnePoseAlgorithm ==
  ev.kind = "build_payload" =>
    LET matrixes == ev.result.facial_transformation_matrixes
        by_matrix == extract_pose_from_matrix(matrixes[1])
        by_landmarks == estimate_pose_from_landmarks(ev.result.face_landmarks[1])
    IN /\ AbsentAssembled =>
            ev.out.pose = [yawDeg |-> 0, pitchDeg |-> 0, rollDeg |-> 0]
       /\ (~AbsentAssembled /\ matrixes # <<>>) =>
            IF by_matrix.tag = "raise" THEN ev.out = by_matrix
            ELSE ev.out.pose = PoseOf(by_matrix)
       /\ (~AbsentAssembled /\ matrixes = <<>>) => ev.out.pose = PoseOf(by_landmarks)
       /\ (~AbsentAssembled /\ matrixes = <<FaceMatrix>>) =>
            ev.out.pose = [yawDeg |-> 0, pitchDeg |-> 0, rollDeg |-> 90]
       /\ (~AbsentAssembled /\ matrixes = <<>>) =>
            ev.out.pose = [yawDeg |-> 0, pitchDeg |-> -45, rollDeg |-> 45]

\* C16: a face with a matrix was assembled, and its pose is the matrix's and not
\* the landmarks'
C16_Witness ==
  /\ FaceAssembled
  /\ ev.result.facial_transformation_matrixes = <<FaceMatrix>>
  /\ ev.out.pose = [yawDeg |-> 0, pitchDeg |-> 0, rollDeg |-> 90]
  /\ ev.out.pose # PoseOf(estimate_pose_from_landmarks(ev.result.face_landmarks[1]))

\* C17: a non-binary message is skipped: nothing is sent for it, the tracker is
\* not touched and the connection receives again; a disconnect message stops
\* the loop with nothing sent and the tracker not touched, and a stopped loop
\* takes no further step.
C17_SkipAndStop ==
  [][/\ ev'.kind = "text" =>
          /\ ev'.sent = <<>>
          /\ UNCHANGED tracker_vars
          /\ pc[ev'.conn] = "receive" /\ pc'[ev'.conn] = "receive"
     /\ ev'.kind = "disconnect" =>
          /\ ev'.sent = <<>>
          /\ UNCHANGED tracker_vars
          /\ pc[ev'.conn] = "receive" /\ pc'[ev'.conn] = "closed"
     /\ \A c \in Conns : pc[c] = "closed" => (ev'.conn # c /\ pc'[c] = "closed")]_vars

\* C17: a text message was skipped while the other connection's call was
\* awaiting on the tracker
C17_Witness ==
  /\ ev.kind = "text"
  /\ ev.sent = <<>>
  /\ pc[ev.conn] = "receive"
  /\ future # 0 /\ inflight # {}

\* C18: with two connections open, the result and the timestamp a process call
\* of one connection returns and records were produced for a frame of that
\* connection, and the history its serverFps is computed from holds no
\* timestamp of the other connection's frames.
C18_NoCrossConnection ==
  ev.kind \in {"return", "pose_error"} =>
    /\ ev.ret = Detect([tag |-> "raster", px |-> CrossImg(ev.conn)[3]], ev.ret.frame)
    /\ completions[Len(completions)] = CrossTs(ev.conn)
    /\ \A i \in 1..Len(fps_hist) : fps_hist[i] = CrossTs(ev.conn)

\* C19: a callback that fires while the slot holds no pending future (none, or
\* one that is completed or cancelled by a timeout) changes only the latest
\* result and the latest timestamp: the history, the slot, the futures and all
\* that a later process call reads and returns are unchanged.
C19_IdleCallback ==
  [][(ev'.kind = "on_result" /\ ~slot_open(future, futs)) =>
       /\ UNCHANGED <<pc, header, call, future, futs, fps_hist, nextId, completions>>
       /\ \E req \in inflight :
            /\ req.id = ev'.id
            /\ inflight' = inflight \ {req}
            /\ latest' = Detect(req.frame_rgb, req.id)
            /\ latest_ts' = req.ts]_vars

\* C19: the callback of a timed-out request fired before the next process call
C19_Witness ==
  /\ ev.kind = "on_result"
  /\ pc["a"] = "receive"
  /\ future # 0 /\ futs[future].state = "cancelled"
  /\ latest # None /\ latest.frame = ev.id
  /\ fps_hist = <<>>

====
